---- MODULE Spec2Model ----
(***************************************************************************)
(* Edge Memory Protocol reference SDK: the shared JSONL log, the entry     *)
(* validator, the sentinel-file lock (FileLockManager) and the store       *)
(* operations of EdgeMemoryStore, as run by several stores (one per        *)
(* application) against the same log file.                                 *)
(*                                                                         *)
(* One atomic step of the model is one file operation of the platform      *)
(* handler (exists / read / write / delete) together with the synchronous  *)
(* code that follows it up to the next await.  Time is a discrete clock;   *)
(* one tick stands for 100 ms, the base of the lock's backoff.             *)
(***************************************************************************)
EXTENDS Integers, Sequences, FiniteSets, TLC

\* The stores sharing the log: config.appId of each application.
Apps == {"com.a.chat", "com.b.notes"}

\* MemoryStore.ts: const PROTOCOL_VERSION = '1.0'
PROTOCOL_VERSION == "1.0"

\* config.lockTimeout of every store, in ticks (100 ms).
lockTimeout == 1

\* lock.ts acquire(): Math.min(100 * Math.pow(2, attempt), 1000), in ticks.
BackoffBase == 1
BackoffCap == 10

\* lock.ts isLocked(): age > this.lockTimeout * 2
StaleFactor == 2

\* Bounds of the exploration.
MaxTime == 4
MaxCalls == 2
MaxListeners == 3

(***************************************************************************)
(* JavaScript values.  An optional property is <<>> when undefined and     *)
(* <<x>> when it holds x.  A JS number is written as its text ("0.5",      *)
(* "NaN"); "null" is the JSON null that JSON.parse returns.                *)
(***************************************************************************)
Undefined == <<>>
Some(x) == <<x>>
IsDef(o) == o # <<>>
Val(o) == o[1]

\* typeof x === 'number' for an element of an emb array
IsNumber(x) == x # "null"

\* Strings matching VERSION_REGEX /^\d+\.\d+$/ that the model uses, and
\* their MAJOR component (isVersionCompatible: split('.').map(Number)[0]).
VersionStrings == {"1.0", "1.1", "2.0"}
MajorOf(v) == IF v \in {"1.0", "1.1"} THEN 1 ELSE 2

\* Strings matching REVERSE_DOMAIN_REGEX that the model uses.
ReverseDomainStrings == Apps \cup {"org.other.app"}

\* Strings matching TAG_REGEX /^[a-z0-9:_-]+$/ that the model uses.
TagStrings == {"x", "y", "person:john"}

\* The ids are abstract UUID v4 strings: id n >= 1 stands for the n-th UUID
\* that generateUUID produced; 0 and 100 are UUIDs that a foreign application
\* generated.
IsUUIDv4(id) == id >= 0

\* An entry object: the protocol's fields, and in extra the names of any
\* other top-level properties it carries.  typeof tells a candidate that is
\* no object (null, a number, a string) from one that is; such a candidate
\* has none of the fields.
NoEntry ==
  [v |-> "", id |-> -1, ts |-> -1, src |-> "", content |-> "",
   type |-> Undefined, tags |-> Undefined, meta |-> Undefined, emb |-> Undefined,
   extra |-> {}, typeof |-> "object"]

RECURSIVE HasDuplicates(_)
HasDuplicates(s) ==
  IF Len(s) < 2 THEN FALSE
  ELSE (\E i \in 2..Len(s) : s[i] = s[1]) \/ HasDuplicates(Tail(s))

\* Faulty variant of validateEntry: the schema is open, unknown fields pass.
validateEntryOpen(entry) ==
  IF entry.typeof # "object" THEN "object"
  ELSE IF entry.v \notin VersionStrings THEN "v"
  ELSE IF ~IsUUIDv4(entry.id) THEN "id"
  ELSE IF entry.ts < 0 THEN "ts"
  ELSE IF entry.src \notin ReverseDomainStrings THEN "src"
  ELSE IF entry.content = "" THEN "content"
  ELSE IF IsDef(entry.tags)
          /\ ( (\E i \in 1..Len(Val(entry.tags)) : Val(entry.tags)[i] \notin TagStrings)
               \/ HasDuplicates(Val(entry.tags)) ) THEN "tags"
  ELSE IF IsDef(entry.meta) /\ Val(entry.meta).kind # "object" THEN "meta"
  ELSE IF IsDef(entry.emb)
          /\ ( Len(Val(entry.emb)) = 0
               \/ \E i \in 1..Len(Val(entry.emb)) : ~IsNumber(Val(entry.emb)[i]) ) THEN "emb"
  ELSE "ok"

\* validateEntry: the field of the first check that throws ("object" for
\* the check that the candidate is an object), or "ok".
validateEntry(entry) ==
  IF entry.typeof # "object" THEN "object"
  ELSE IF entry.v \notin VersionStrings THEN "v"
  ELSE IF ~IsUUIDv4(entry.id) THEN "id"
  ELSE IF entry.ts < 0 THEN "ts"
  ELSE IF entry.src \notin ReverseDomainStrings THEN "src"
  ELSE IF entry.content = "" THEN "content"
  ELSE IF IsDef(entry.tags)
          /\ ( (\E i \in 1..Len(Val(entry.tags)) : Val(entry.tags)[i] \notin TagStrings)
               \/ HasDuplicates(Val(entry.tags)) ) THEN "tags"
  ELSE IF IsDef(entry.meta) /\ Val(entry.meta).kind # "object" THEN "meta"
  ELSE IF IsDef(entry.emb)
          /\ ( Len(Val(entry.emb)) = 0
               \/ \E i \in 1..Len(Val(entry.emb)) : ~IsNumber(Val(entry.emb)[i]) ) THEN "emb"
  ELSE IF entry.extra # {} THEN "unknown"
  ELSE "ok"

\* Faulty variant of isVersionCompatible: MINOR has to be equal as well.
isVersionEqual(entryVersion, supportedVersion) == entryVersion = supportedVersion

isVersionCompatible(entryVersion, supportedVersion) ==
  MajorOf(entryVersion) = MajorOf(supportedVersion)

(***************************************************************************)
(* JSON.  A line of the log is either the text of one JSON object or some  *)
(* other text.  JSON.stringify writes a non-finite number as null and      *)
(* leaves undefined properties out; JSON.parse gives the object back.      *)
(***************************************************************************)
StringifyNumber(x) == IF x \in {"NaN", "Infinity"} THEN "null" ELSE x

JSONstringify(entry) ==
  [kind |-> "json",
   obj  |-> [entry EXCEPT !.emb =
               IF IsDef(entry.emb)
               THEN Some([i \in 1..Len(Val(entry.emb)) |-> StringifyNumber(Val(entry.emb)[i])])
               ELSE Undefined]]

\* JSON.parse(line) throws on a line that is no JSON text.
Parses(line) == line.kind = "json"
JSONparse(line) == line.obj

(***************************************************************************)
(* EdgeMemoryStore.read on the text of the log.                            *)
(***************************************************************************)
NoFilter ==
  [since |-> Undefined, until |-> Undefined, type |-> Undefined,
   src |-> Undefined, tags |-> Undefined, limit |-> Undefined]

\* JavaScript truthiness of an optional number / string.
TruthyNumber(o) == IsDef(o) /\ Val(o) # 0
TruthyString(o) == IsDef(o) /\ Val(o) # ""

\* Faulty variant of hasTag: every() in place of some().
hasAllTags(entry, tags) ==
  /\ IsDef(entry.tags)
  /\ \A i \in 1..Len(tags) : \E j \in 1..Len(Val(entry.tags)) : Val(entry.tags)[j] = tags[i]

\* filter.tags.some(tag => entry.tags?.includes(tag))
hasTag(entry, tags) ==
  /\ IsDef(entry.tags)
  /\ \E i \in 1..Len(tags) : \E j \in 1..Len(Val(entry.tags)) : Val(entry.tags)[j] = tags[i]

PassesFilter(entry, filter) ==
  /\ ~(TruthyNumber(filter.since) /\ entry.ts < Val(filter.since))
  /\ ~(TruthyNumber(filter.until) /\ entry.ts > Val(filter.until))
  /\ ~(TruthyString(filter.type) /\ entry.type # filter.type)
  /\ ~(TruthyString(filter.src) /\ entry.src # Val(filter.src))
  /\ ~(IsDef(filter.tags) /\ Len(Val(filter.tags)) > 0 /\ ~hasTag(entry, Val(filter.tags)))

\* Faulty variant of LineIsRead: validateEntry is missing from the loop.
LineIsReadUnvalidated(line, filter) ==
  /\ Parses(line)
  /\ isVersionCompatible(JSONparse(line).v, PROTOCOL_VERSION)
  /\ PassesFilter(JSONparse(line), filter)

\* The body of read's loop: the line is pushed unless parsing or
\* validation throws, the version is incompatible or a filter says continue.
LineIsRead(line, filter) ==
  /\ Parses(line)
  /\ validateEntry(JSONparse(line)) = "ok"
  /\ isVersionCompatible(JSONparse(line).v, PROTOCOL_VERSION)
  /\ PassesFilter(JSONparse(line), filter)

\* entries.sort((a, b) => b.ts - a.ts): stable, newest first.
RECURSIVE InsertByTs(_, _)
InsertByTs(e, s) ==
  IF s = <<>> THEN <<e>>
  ELSE IF Head(s).ts >= e.ts THEN <<Head(s)>> \o InsertByTs(e, Tail(s))
  ELSE <<e>> \o s

\* Faulty variant of SortNewestFirst: the entries stay in file order.
FileOrder(s) == s

RECURSIVE SortNewestFirst(_)
SortNewestFirst(s) ==
  IF s = <<>> THEN <<>>
  ELSE InsertByTs(s[Len(s)], SortNewestFirst(SubSeq(s, 1, Len(s) - 1)))

\* entries.slice(0, limit)
Slice(s, limit) ==
  IF limit >= 0 THEN SubSeq(s, 1, IF limit < Len(s) THEN limit ELSE Len(s))
  ELSE SubSeq(s, 1, Len(s) + limit)

read(content, filter) ==
  LET Keep(line) == LineIsRead(line, filter)
      lines == SelectSeq(content, Keep)
      entries == SortNewestFirst([i \in 1..Len(lines) |-> JSONparse(lines[i])])
  IN IF TruthyNumber(filter.limit) THEN Slice(entries, Val(filter.limit)) ELSE entries

(***************************************************************************)
(* The state: the clock, the two files, and each store's call in progress. *)
(***************************************************************************)
VARIABLES
  now,       \* Date.now(), in ticks
  log,       \* the lines of the log file
  sentinel,  \* <logpath>.lock: Undefined when absent, else Some(its epoch)
  nextId,    \* the number of UUIDs generateUUID has produced, plus one
  calls,     \* the number of store calls made so far
  loc,       \* per store: the locals of the call in progress
  call,      \* per store: the call in progress or the last one, with its outcome
  events,    \* per store: the events delivered to its listeners, oldest first
  listeners, \* per store: this.listeners, each with the events it was called with
  locked     \* InMemoryLockManager.locked, of the one manager its callers share

vars == <<now, log, sentinel, nextId, calls, loc, call, events, listeners, locked>>

NoInput ==
  [content |-> "", type |-> Undefined, tags |-> Undefined, meta |-> Undefined,
   emb |-> Undefined, ts |-> Undefined]

NoChanges ==
  [content |-> Undefined, type |-> Undefined, tags |-> Undefined,
   meta |-> Undefined, emb |-> Undefined]

\* pc is the await the call is suspended at.  reclaimed is a history field:
\* <<epoch, attempt>> once this acquire() has found a stale sentinel of that
\* epoch in the loop iteration numbered attempt.
Idle ==
  [pc |-> "idle", startTime |-> 0, attempt |-> 0, wakeAt |-> 0,
   entry |-> NoEntry, existing |-> <<>>, content |-> <<>>, thrown |-> "",
   reclaimed |-> <<>>, retried |-> FALSE]

\* kind: the method called; input / id / changes: its arguments; before: the
\* log when it was called; status: "running", "ok" or the error thrown;
\* ret: the entry returned.  Once the call is over only kind, id, status and
\* ret are kept (and the input that validation rejected).  For read():
\* filter is its argument, result the array it returned, and lockBefore the
\* sentinel as it was when read() ran.
NoCall ==
  [kind |-> "none", input |-> NoInput, id |-> -1, changes |-> NoChanges,
   before |-> <<>>, status |-> "none", ret |-> NoEntry,
   filter |-> NoFilter, result |-> <<>>, lockBefore |-> Undefined]

\* The record of a call that is over.
Over(c, status, ret) ==
  [c EXCEPT !.input = NoInput, !.changes = NoChanges, !.before = <<>>,
            !.status = status, !.ret = ret]

\* The inputs of write() that the model explores.
PlainInput == [NoInput EXCEPT !.content = "A"]
FullInput ==
  [content |-> "B", type |-> Some("note"), tags |-> Some(<<"x", "y">>),
   meta |-> Some([kind |-> "object", text |-> "{priority:high}"]),
   emb |-> Some(<<"0.5">>), ts |-> Some(3)]
EmptyContentInput == [NoInput EXCEPT !.content = ""]
NaNEmbInput == [NoInput EXCEPT !.content = "A", !.emb = Some(<<"NaN">>)]
ZeroTsInput == [NoInput EXCEPT !.content = "Z", !.ts = Some(0)]
WriteInputs == {PlainInput, FullInput, EmptyContentInput, NaNEmbInput, ZeroTsInput}

\* The changes of update() that the model explores.
UpdateChanges == {[NoChanges EXCEPT !.content = Some("C")]}

\* Lines another application left in the log: two revisions of one memory
\* and an entry of a later protocol version.
ForeignEntry(ver, id, t, text) ==
  [NoEntry EXCEPT !.v = ver, !.id = id, !.ts = t, !.src = "org.other.app", !.content = text]
ForeignLog ==
  << JSONstringify(ForeignEntry("1.0", 0, 1, "F")),
     JSONstringify(ForeignEntry("2.0", 100, 1, "G")),
     JSONstringify(ForeignEntry("1.1", 0, 2, "H")) >>

InitWith(logs) ==
  /\ now = 1
  /\ log \in logs
  /\ sentinel = Undefined
  /\ nextId = 1
  /\ calls = 0
  /\ loc = [p \in Apps |-> Idle]
  /\ call = [p \in Apps |-> NoCall]
  /\ events = [p \in Apps |-> <<>>]
  /\ listeners = [p \in Apps |-> <<>>]
  /\ locked = FALSE

Init == InitWith({<<>>})

(***************************************************************************)
(* FileLockManager                                                         *)
(***************************************************************************)
RECURSIVE Pow2(_)
Pow2(n) == IF n = 0 THEN 1 ELSE 2 * Pow2(n - 1)

\* Math.min(100 * Math.pow(2, attempt), 1000); the jitter is below one tick.
backoff(attempt) ==
  IF BackoffBase * Pow2(attempt) < BackoffCap THEN BackoffBase * Pow2(attempt) ELSE BackoffCap

\* isLocked(): what the content of the sentinel says at time t.
\* parseInt of an absent file's '' is NaN; the model writes 0 for it.
lockTime == IF IsDef(sentinel) THEN Val(sentinel) ELSE 0
InvalidLock == lockTime = 0

\* Faulty variant of StaleLock: a sentinel is stale as soon as its age
\* reaches twice the timeout.
StaleLockEarly == now - lockTime >= lockTimeout * StaleFactor

StaleLock == now - lockTime > lockTimeout * StaleFactor

\* The critical section a call enters once acquire() has returned.
CriticalPc(kind) ==
  CASE kind \in {"write", "update"} -> "append_read"
    [] kind = "delete" -> "delete_read"
    [] kind = "clear" -> "clear_write"

\* isLocked(): const exists = await this.fileOps.exists(this.lockPath).
\* fileExists returns file.exists, which is evaluated when it is called.
isLockedExists(l) ==
  [l EXCEPT !.pc = IF IsDef(sentinel) THEN "isLocked_read" ELSE "acquire_write"]

\* acquire(): const startTime = Date.now(); let attempt = 0; then the first
\* isLocked() of the loop.
acquireStart(l) ==
  isLockedExists([l EXCEPT !.startTime = now, !.attempt = 0])

\* isLocked(): the sentinel is read and found invalid or stale.
isLockedReclaim(p) ==
  /\ loc[p].pc = "isLocked_read"
  /\ InvalidLock \/ StaleLock
  /\ loc' = [loc EXCEPT ![p].pc = "isLocked_delete",
                        ![p].reclaimed = IF InvalidLock THEN <<>>
                                         ELSE <<lockTime, loc[p].attempt>>]
  /\ UNCHANGED <<now, log, sentinel, nextId, calls, call, events, listeners, locked>>

\* isLocked() returns true, and acquire() goes to sleep for its backoff.
acquireBackoff(p) ==
  /\ loc[p].pc = "isLocked_read"
  /\ ~(InvalidLock \/ StaleLock)
  /\ now - loc[p].startTime <= lockTimeout
  /\ loc' = [loc EXCEPT ![p].pc = "acquire_sleep",
                        ![p].wakeAt = now + backoff(loc[p].attempt)]
  /\ UNCHANGED <<now, log, sentinel, nextId, calls, call, events, listeners, locked>>

\* Faulty variant of acquireTimeout: withLock calls acquire() inside its try,
\* so the finally releases a lock that was never acquired.
acquireTimeoutReleases(p) ==
  /\ loc[p].pc = "isLocked_read"
  /\ ~(InvalidLock \/ StaleLock)
  /\ now - loc[p].startTime > lockTimeout
  /\ sentinel' = Undefined
  /\ loc' = [loc EXCEPT ![p] = Idle]
  /\ call' = [call EXCEPT ![p] = Over(call[p], "LockTimeout", NoEntry)]
  /\ UNCHANGED <<now, log, nextId, calls, events, listeners, locked>>

\* isLocked() returns true, and acquire() throws LockTimeoutError: withLock
\* calls acquire() outside its try, so nothing is released.
acquireTimeout(p) ==
  /\ loc[p].pc = "isLocked_read"
  /\ ~(InvalidLock \/ StaleLock)
  /\ now - loc[p].startTime > lockTimeout
  /\ loc' = [loc EXCEPT ![p] = Idle]
  /\ call' = [call EXCEPT ![p] = Over(call[p], "LockTimeout", NoEntry)]
  /\ UNCHANGED <<now, log, sentinel, nextId, calls, events, listeners, locked>>

\* acquire(): the sleep is over; attempt++ and the loop calls isLocked() again.
acquireWake(p) ==
  /\ loc[p].pc = "acquire_sleep"
  /\ now >= loc[p].wakeAt
  /\ loc' = [loc EXCEPT ![p] = isLockedExists([loc[p] EXCEPT !.attempt = loc[p].attempt + 1,
                                                               !.wakeAt = 0])]
  /\ UNCHANGED <<now, log, sentinel, nextId, calls, call, events, listeners, locked>>

\* Faulty variant of isLockedDelete: the sentinel is deleted but the "return false" is
\* missing, so isLocked() answers true and acquire() backs off or times out.
isLockedDeleteThenLocked(p) ==
  /\ loc[p].pc = "isLocked_delete"
  /\ sentinel' = Undefined
  /\ IF now - loc[p].startTime > lockTimeout
     THEN /\ loc' = [loc EXCEPT ![p] = Idle]
          /\ call' = [call EXCEPT ![p] = Over(call[p], "LockTimeout", NoEntry)]
     ELSE /\ loc' = [loc EXCEPT ![p].pc = "acquire_sleep",
                                ![p].wakeAt = now + backoff(loc[p].attempt)]
          /\ UNCHANGED call
  /\ UNCHANGED <<now, log, nextId, calls, events, listeners, locked>>

\* isLocked(): await this.fileOps.delete(this.lockPath); return false
isLockedDelete(p) ==
  /\ loc[p].pc = "isLocked_delete"
  /\ sentinel' = Undefined
  /\ loc' = [loc EXCEPT ![p].pc = "acquire_write"]
  /\ UNCHANGED <<now, log, nextId, calls, call, events, listeners, locked>>

\* acquire(): await this.fileOps.write(this.lockPath, Date.now().toString())
acquireWrite(p) ==
  /\ loc[p].pc = "acquire_write"
  /\ sentinel' = Some(now)
  /\ loc' = [loc EXCEPT ![p].pc = CriticalPc(call[p].kind)]
  /\ UNCHANGED <<now, log, nextId, calls, call, events, listeners, locked>>

\* Faulty variant of acquireWriteFails: the write is not inside a try and
\* its error reaches the caller of acquire().
acquireWriteThrows(p) ==
  /\ loc[p].pc = "acquire_write"
  /\ loc' = [loc EXCEPT ![p] = Idle]
  /\ call' = [call EXCEPT ![p] = Over(call[p], "IOError", NoEntry)]
  /\ UNCHANGED <<now, log, sentinel, nextId, calls, events, listeners, locked>>

\* acquire(): fileOps.write throws and the sentinel is not created; the
\* catch goes on to the timeout check, which throws LockTimeoutError or
\* sleeps for the backoff before the next iteration.
acquireWriteFails(p) ==
  /\ loc[p].pc = "acquire_write"
  /\ IF now - loc[p].startTime > lockTimeout
     THEN /\ loc' = [loc EXCEPT ![p] = Idle]
          /\ call' = [call EXCEPT ![p] = Over(call[p], "LockTimeout", NoEntry)]
     ELSE /\ loc' = [loc EXCEPT ![p].pc = "acquire_sleep",
                                ![p].wakeAt = now + backoff(loc[p].attempt),
                                ![p].retried = TRUE]
          /\ UNCHANGED call
  /\ UNCHANGED <<now, log, sentinel, nextId, calls, events, listeners, locked>>

\* The positions inside the function withLock runs: each is a file operation
\* of the platform handler.
CriticalPcs == {"append_read", "append_write", "delete_read", "delete_write", "clear_write"}

\* Faulty variant of criticalSectionFails: withLock has no finally, and the
\* error leaves it without release().
criticalSectionFailsNoFinally(p) ==
  /\ loc[p].pc \in CriticalPcs
  /\ loc' = [loc EXCEPT ![p].pc = "after_lock", ![p].thrown = "IOError",
                        ![p].existing = <<>>, ![p].content = <<>>]
  /\ UNCHANGED <<now, log, sentinel, nextId, calls, call, events, listeners, locked>>

\* withLock: the file operation of fn() throws; the file is as it was, and
\* the finally runs release() before the error is rethrown.
criticalSectionFails(p) ==
  /\ loc[p].pc \in CriticalPcs
  /\ loc' = [loc EXCEPT ![p].pc = "release", ![p].thrown = "IOError",
                        ![p].existing = <<>>, ![p].content = <<>>]
  /\ UNCHANGED <<now, log, sentinel, nextId, calls, call, events, listeners, locked>>

\* Faulty variant of release: deleting a sentinel that is not there is an
\* error, which withLock's finally throws.
releaseStrict(p) ==
  /\ loc[p].pc = "release"
  /\ sentinel' = Undefined
  /\ loc' = [loc EXCEPT ![p].pc = "after_lock",
                        ![p].thrown = IF IsDef(sentinel) THEN @ ELSE "ENOENT"]
  /\ UNCHANGED <<now, log, nextId, calls, call, events, listeners, locked>>

\* withLock's finally: release() deletes the sentinel.
release(p) ==
  /\ loc[p].pc = "release"
  /\ sentinel' = Undefined
  /\ loc' = [loc EXCEPT ![p].pc = "after_lock"]
  /\ UNCHANGED <<now, log, nextId, calls, call, events, listeners, locked>>

(***************************************************************************)
(* InMemoryLockManager.  Its callers are the asynchronous tasks of one      *)
(* process; the model names them like the stores.  The code between two    *)
(* awaits runs without interruption.                                       *)
(***************************************************************************)
\* acquire() at the head of its loop, elapsed within the timeout or not
\* looked at yet: the lock is taken when free; else LockTimeoutError once
\* elapsed > lockTimeout; else the sleep of the backoff.
memLoop(p, l, c) ==
  IF ~locked
  THEN /\ locked' = TRUE
       /\ loc' = [loc EXCEPT ![p] = [l EXCEPT !.pc = "mem_held", !.wakeAt = 0]]
       /\ call' = [call EXCEPT ![p] = c]
  ELSE IF now - l.startTime > lockTimeout
  THEN /\ loc' = [loc EXCEPT ![p] = Idle]
       /\ call' = [call EXCEPT ![p] = Over(c, "LockTimeout", NoEntry)]
       /\ UNCHANGED locked
  ELSE /\ loc' = [loc EXCEPT ![p] = [l EXCEPT !.pc = "mem_sleep",
                                              !.wakeAt = now + backoff(l.attempt)]]
       /\ call' = [call EXCEPT ![p] = c]
       /\ UNCHANGED locked

\* acquire(): const startTime = Date.now(); let attempt = 0; the loop.
memAcquire(p) ==
  /\ loc[p].pc = "idle"
  /\ calls < MaxCalls
  /\ calls' = calls + 1
  /\ memLoop(p, [Idle EXCEPT !.startTime = now],
              [NoCall EXCEPT !.kind = "acquire", !.status = "running"])
  /\ UNCHANGED <<now, log, sentinel, nextId, events, listeners>>

\* Faulty variant of memWake: the lock is taken after the sleep without
\* looking at it again.
memWakeNoCheck(p) ==
  /\ loc[p].pc = "mem_sleep"
  /\ now >= loc[p].wakeAt
  /\ locked' = TRUE
  /\ loc' = [loc EXCEPT ![p] = [loc[p] EXCEPT !.pc = "mem_held", !.wakeAt = 0,
                                               !.attempt = loc[p].attempt + 1]]
  /\ UNCHANGED <<now, log, sentinel, nextId, calls, call, events, listeners>>

\* acquire(): the sleep is over; attempt++ and the loop again.
memWake(p) ==
  /\ loc[p].pc = "mem_sleep"
  /\ now >= loc[p].wakeAt
  /\ memLoop(p, [loc[p] EXCEPT !.attempt = loc[p].attempt + 1], call[p])
  /\ UNCHANGED <<now, log, sentinel, nextId, calls, events, listeners>>

\* isLocked(): return this.locked
memIsLocked(p) ==
  /\ loc[p].pc = "idle"
  /\ call' = [call EXCEPT ![p] = Over([NoCall EXCEPT !.kind = "isLocked"],
                                      IF locked THEN "true" ELSE "false", NoEntry)]
  /\ UNCHANGED <<now, log, sentinel, nextId, calls, loc, events, listeners, locked>>

\* release(): this.locked = false
memRelease(p) ==
  /\ loc[p].pc = "mem_held"
  /\ locked' = FALSE
  /\ loc' = [loc EXCEPT ![p] = Idle]
  /\ call' = [call EXCEPT ![p] = Over(call[p], "ok", NoEntry)]
  /\ UNCHANGED <<now, log, sentinel, nextId, calls, events, listeners>>

(***************************************************************************)
(* EdgeMemoryStore                                                         *)
(***************************************************************************)
\* Faulty variant of generateUUID: the UUID produced last is produced again.
generateUUIDRepeats == IF nextId > 1 THEN nextId - 1 ELSE nextId

\* generateUUID(): a UUID no entry carries yet.
generateUUID == nextId

\* Faulty variant of buildEntry: src is not filled with the store's appId.
buildEntryForeignSource(p, input) ==
  [v |-> PROTOCOL_VERSION,
   id |-> generateUUID,
   ts |-> IF TruthyNumber(input.ts) THEN Val(input.ts) ELSE now,
   src |-> "org.other.app",
   content |-> input.content,
   type |-> input.type,
   tags |-> input.tags,
   meta |-> input.meta,
   emb |-> input.emb,
   extra |-> {},
   typeof |-> "object"]

\* write(): the entry built from the input.
buildEntry(p, input) ==
  [v |-> PROTOCOL_VERSION,
   id |-> generateUUID,
   ts |-> IF TruthyNumber(input.ts) THEN Val(input.ts) ELSE now,
   src |-> p,
   content |-> input.content,
   type |-> input.type,
   tags |-> input.tags,
   meta |-> input.meta,
   emb |-> input.emb,
   extra |-> {},
   typeof |-> "object"]

\* Faulty variant of writeBegin: validateEntry is not called before withLock.
writeBeginUnvalidated(p, input, c) ==
  /\ nextId' = nextId + 1
  /\ call' = [call EXCEPT ![p] = c]
  /\ loc' = [loc EXCEPT ![p] = acquireStart([Idle EXCEPT !.entry = buildEntry(p, input)])]

\* write(input) up to its first await: build, validate, then withLock's
\* acquire().  c is the record of the call that runs it (write or update).
writeBegin(p, input, c) ==
  LET entry == buildEntry(p, input) IN
  /\ nextId' = nextId + 1
  /\ IF validateEntry(entry) # "ok"
     THEN /\ call' = [call EXCEPT ![p] = [c EXCEPT !.before = <<>>, !.status = "ValidationError"]]
          /\ loc' = [loc EXCEPT ![p] = Idle]
     ELSE /\ call' = [call EXCEPT ![p] = c]
          /\ loc' = [loc EXCEPT ![p] = acquireStart([Idle EXCEPT !.entry = entry])]

NewCall(kind) == [NoCall EXCEPT !.kind = kind, !.before = log, !.status = "running"]

CanCall(p) == loc[p].pc = "idle" /\ calls < MaxCalls

write(p, input) ==
  /\ CanCall(p)
  /\ calls' = calls + 1
  /\ writeBegin(p, input, [NewCall("write") EXCEPT !.input = input])
  /\ UNCHANGED <<now, log, sentinel, events, listeners, locked>>

\* appendFile(): const existing = await this.readFile(path)
appendRead(p) ==
  /\ loc[p].pc = "append_read"
  /\ loc' = [loc EXCEPT ![p].pc = "append_write", ![p].existing = log]
  /\ UNCHANGED <<now, log, sentinel, nextId, calls, call, events, listeners, locked>>

\* Faulty variant of appendWrite: file.write(content) without the existing text.
appendWriteOverwrite(p) ==
  /\ loc[p].pc = "append_write"
  /\ log' = <<JSONstringify(loc[p].entry)>>
  /\ loc' = [loc EXCEPT ![p].pc = "release", ![p].existing = <<>>]
  /\ UNCHANGED <<now, sentinel, nextId, calls, call, events, listeners, locked>>

\* A listener: a callback that returns or throws, with the events it has
\* been called with so far.  A listener with once set calls the unsubscribe
\* function onChange returned for it when it is called.
Listener(throws) == [throws |-> throws, received |-> <<>>, once |-> FALSE]

\* this.listeners.splice(index, 1)
RemoveAt(ls, index) == SubSeq(ls, 1, index - 1) \o SubSeq(ls, index + 1, Len(ls))

\* onChange(listener) of a listener that unsubscribes itself when called.
onChangeOnce(p) ==
  /\ Len(listeners[p]) < MaxListeners
  /\ listeners' = [listeners EXCEPT ![p] = Append(@, [Listener(FALSE) EXCEPT !.once = TRUE])]
  /\ UNCHANGED <<now, log, sentinel, nextId, calls, loc, call, events, locked>>

\* The function onChange returned, called while no notification is in
\* progress: index = this.listeners.indexOf(listener); splice(index, 1).
unsubscribe(p, index) ==
  /\ index \in 1..Len(listeners[p])
  /\ listeners' = [listeners EXCEPT ![p] = RemoveAt(@, index)]
  /\ UNCHANGED <<now, log, sentinel, nextId, calls, loc, call, events, locked>>

\* onChange(listener): this.listeners.push(listener)
onChange(p, throws) ==
  /\ Len(listeners[p]) < MaxListeners
  /\ listeners' = [listeners EXCEPT ![p] = Append(@, Listener(throws))]
  /\ UNCHANGED <<now, log, sentinel, nextId, calls, loc, call, events, locked>>

\* Faulty variant of notifyListeners: without the try/catch the first
\* listener that throws ends the loop.
notifyListenersNoCatch(ls, event) ==
  [j \in 1..Len(ls) |->
     IF \E k \in 1..(j - 1) : ls[k].throws
     THEN ls[j]
     ELSE [ls[j] EXCEPT !.received = Append(@, event)]]

\* for (const listener of this.listeners): the array iterator keeps an
\* index into the live array.  The listener at the index is called; when it
\* unsubscribes itself the splice moves the later listeners one place down
\* while the index goes one up.
RECURSIVE notifyFrom(_, _, _)
notifyFrom(ls, index, event) ==
  IF index > Len(ls)
  THEN ls
  ELSE LET called == [ls EXCEPT ![index].received = Append(@, event)] IN
       notifyFrom(IF ls[index].once THEN RemoveAt(called, index) ELSE called,
                  index + 1, event)

\* notifyListeners(event): the listeners are called with the event, in the
\* order of registration; what a listener throws is caught and logged.
notifyListeners(ls, event) == notifyFrom(ls, 1, event)

\* Faulty variant of appendWrite: the listeners are notified inside withLock,
\* before the lock is released.
appendWriteNotifies(p) ==
  /\ loc[p].pc = "append_write"
  /\ log' = Append(loc[p].existing, JSONstringify(loc[p].entry))
  /\ events' = [events EXCEPT ![p] = Append(@, [type |-> "write", id |-> loc[p].entry.id,
                                                  entry |-> loc[p].entry])]
  /\ listeners' = [listeners EXCEPT ![p] =
                     notifyListeners(@, [type |-> "write", id |-> loc[p].entry.id,
                                         entry |-> loc[p].entry])]
  /\ loc' = [loc EXCEPT ![p].pc = "release", ![p].existing = <<>>]
  /\ UNCHANGED <<now, sentinel, nextId, calls, call, locked>>

\* appendFile(): await file.write(existing + content)
appendWrite(p) ==
  /\ loc[p].pc = "append_write"
  /\ log' = Append(loc[p].existing, JSONstringify(loc[p].entry))
  /\ loc' = [loc EXCEPT ![p].pc = "release", ![p].existing = <<>>]
  /\ UNCHANGED <<now, sentinel, nextId, calls, call, events, listeners, locked>>

\* write() after withLock: the error of appendFile is rethrown, or
\* notifyListeners({type: 'write', entry}); return entry
writeEnd(p) ==
  /\ loc[p].pc = "after_lock"
  /\ call[p].kind \in {"write", "update"}
  /\ IF loc[p].thrown # ""
     THEN /\ call' = [call EXCEPT ![p] = Over(call[p], loc[p].thrown, NoEntry)]
          /\ UNCHANGED <<events, listeners, locked>>
     ELSE /\ events' = [events EXCEPT ![p] = Append(@, [type |-> "write", id |-> loc[p].entry.id,
                                                          entry |-> loc[p].entry])]
          /\ listeners' = [listeners EXCEPT ![p] =
                             notifyListeners(@, [type |-> "write", id |-> loc[p].entry.id,
                                                 entry |-> loc[p].entry])]
          /\ call' = [call EXCEPT ![p] = Over(call[p], "ok", loc[p].entry)]
  /\ loc' = [loc EXCEPT ![p] = Idle]
  /\ UNCHANGED <<now, log, sentinel, nextId, calls, locked>>

\* entries.find(e => e.id === id): the index of the first match, or 0.
FindIndex(entries, id) ==
  IF \E i \in 1..Len(entries) : entries[i].id = id
  THEN CHOOSE i \in 1..Len(entries) :
         /\ entries[i].id = id
         /\ \A j \in 1..(i - 1) : entries[j].id # id
  ELSE 0

\* {...existing, ...updates, ts: Date.now()}
mergeUpdates(existing, updates) ==
  [content |-> IF IsDef(updates.content) THEN Val(updates.content) ELSE existing.content,
   type |-> IF IsDef(updates.type) THEN updates.type ELSE existing.type,
   tags |-> IF IsDef(updates.tags) THEN updates.tags ELSE existing.tags,
   meta |-> IF IsDef(updates.meta) THEN updates.meta ELSE existing.meta,
   emb |-> IF IsDef(updates.emb) THEN updates.emb ELSE existing.emb,
   ts |-> Some(now)]

\* Faulty variant of update: the not-found check is missing and an id that
\* read() does not return is written as a new entry.
updateUpserts(p, id, updates) ==
  LET entries == read(log, NoFilter)
      i == FindIndex(entries, id)
      c == [NewCall("update") EXCEPT !.id = id, !.changes = updates]
  IN
  /\ CanCall(p)
  /\ calls' = calls + 1
  /\ writeBegin(p, mergeUpdates(IF i = 0 THEN NoEntry ELSE entries[i], updates), c)
  /\ UNCHANGED <<now, log, sentinel, events, listeners, locked>>

\* update(id, updates): read(), find, then write(updated).
update(p, id, updates) ==
  LET entries == read(log, NoFilter)
      i == FindIndex(entries, id)
      c == [NewCall("update") EXCEPT !.id = id, !.changes = updates]
  IN
  /\ CanCall(p)
  /\ calls' = calls + 1
  /\ IF i = 0
     THEN /\ call' = [call EXCEPT ![p] = Over(c, "NotFound", NoEntry)]
          /\ UNCHANGED <<loc, nextId>>
     ELSE writeBegin(p, mergeUpdates(entries[i], updates), c)
  /\ UNCHANGED <<now, log, sentinel, events, listeners, locked>>

\* delete(id): withLock's acquire().
delete(p, id) ==
  /\ CanCall(p)
  /\ calls' = calls + 1
  /\ call' = [call EXCEPT ![p] = [NewCall("delete") EXCEPT !.id = id]]
  /\ loc' = [loc EXCEPT ![p] = acquireStart(Idle)]
  /\ UNCHANGED <<now, log, sentinel, nextId, events, listeners, locked>>

\* Faulty variant of deleteRead: the not-found check is missing.
deleteReadNoThrow(p) ==
  LET entries == read(log, NoFilter)
      Other(e) == e.id # call[p].id
      filtered == SelectSeq(entries, Other)
  IN
  /\ loc[p].pc = "delete_read"
  /\ loc' = [loc EXCEPT ![p].pc = "delete_write",
                        ![p].content = [k \in 1..Len(filtered) |-> JSONstringify(filtered[k])]]
  /\ UNCHANGED <<now, log, sentinel, nextId, calls, call, events, listeners, locked>>

\* Faulty variant of deleteRead: only the first entry with the id is filtered out.
deleteReadFirstOnly(p) ==
  LET entries == read(log, NoFilter)
      i == FindIndex(entries, call[p].id)
      filtered == [k \in 1..(Len(entries) - 1) |-> IF k < i THEN entries[k] ELSE entries[k + 1]]
  IN
  /\ loc[p].pc = "delete_read"
  /\ IF i = 0
     THEN loc' = [loc EXCEPT ![p].pc = "release", ![p].thrown = "NotFound"]
     ELSE loc' = [loc EXCEPT ![p].pc = "delete_write",
                             ![p].content = [k \in 1..Len(filtered) |-> JSONstringify(filtered[k])]]
  /\ UNCHANGED <<now, log, sentinel, nextId, calls, call, events, listeners, locked>>

\* delete(): read(), filter; throws if nothing was filtered out, else
\* builds the content to rewrite the file with.
deleteRead(p) ==
  LET entries == read(log, NoFilter)
      Other(e) == e.id # call[p].id
      filtered == SelectSeq(entries, Other)
  IN
  /\ loc[p].pc = "delete_read"
  /\ IF Len(filtered) = Len(entries)
     THEN loc' = [loc EXCEPT ![p].pc = "release", ![p].thrown = "NotFound"]
     ELSE loc' = [loc EXCEPT ![p].pc = "delete_write",
                             ![p].content = [k \in 1..Len(filtered) |-> JSONstringify(filtered[k])]]
  /\ UNCHANGED <<now, log, sentinel, nextId, calls, call, events, listeners, locked>>

\* delete(): await this.platformHandler.writeFile(this.filePath, content)
deleteWrite(p) ==
  /\ loc[p].pc = "delete_write"
  /\ log' = loc[p].content
  /\ loc' = [loc EXCEPT ![p].pc = "release", ![p].content = <<>>]
  /\ UNCHANGED <<now, sentinel, nextId, calls, call, events, listeners, locked>>

\* delete() after withLock: the error is rethrown, or the listeners are
\* notified with {type: 'delete', entry: {id}}.
deleteEnd(p) ==
  /\ loc[p].pc = "after_lock"
  /\ call[p].kind = "delete"
  /\ IF loc[p].thrown # ""
     THEN /\ call' = [call EXCEPT ![p] = Over(call[p], loc[p].thrown, NoEntry)]
          /\ UNCHANGED <<events, listeners, locked>>
     ELSE /\ call' = [call EXCEPT ![p] = Over(call[p], "ok", NoEntry)]
          /\ events' = [events EXCEPT ![p] = Append(@, [type |-> "delete", id |-> call[p].id,
                                                          entry |-> NoEntry])]
          /\ listeners' = [listeners EXCEPT ![p] =
                             notifyListeners(@, [type |-> "delete", id |-> call[p].id,
                                                 entry |-> NoEntry])]
  /\ loc' = [loc EXCEPT ![p] = Idle]
  /\ UNCHANGED <<now, log, sentinel, nextId, calls, locked>>

\* clear(): withLock's acquire().
clear(p) ==
  /\ CanCall(p)
  /\ calls' = calls + 1
  /\ call' = [call EXCEPT ![p] = NewCall("clear")]
  /\ loc' = [loc EXCEPT ![p] = acquireStart(Idle)]
  /\ UNCHANGED <<now, log, sentinel, nextId, events, listeners, locked>>

\* Faulty variant of clearWrite: the file is written back as it is.
clearWriteKeeps(p) ==
  /\ loc[p].pc = "clear_write"
  /\ log' = log
  /\ loc' = [loc EXCEPT ![p].pc = "release"]
  /\ UNCHANGED <<now, sentinel, nextId, calls, call, events, listeners, locked>>

\* clear(): await this.platformHandler.writeFile(this.filePath, '')
clearWrite(p) ==
  /\ loc[p].pc = "clear_write"
  /\ log' = <<>>
  /\ loc' = [loc EXCEPT ![p].pc = "release"]
  /\ UNCHANGED <<now, sentinel, nextId, calls, call, events, listeners, locked>>

clearEnd(p) ==
  /\ loc[p].pc = "after_lock"
  /\ call[p].kind = "clear"
  /\ call' = [call EXCEPT ![p] = Over(call[p], IF loc[p].thrown # "" THEN loc[p].thrown ELSE "ok",
                                      NoEntry)]
  /\ loc' = [loc EXCEPT ![p] = Idle]
  /\ UNCHANGED <<now, log, sentinel, nextId, calls, events, listeners, locked>>

\* Faulty variant of readCall: read() runs under withLock, so it creates the
\* sentinel, or waits for it and times out when another store holds it.
readCallUnderLock(p, filter) ==
  /\ CanCall(p)
  /\ calls' = calls + 1
  /\ IF IsDef(sentinel)
     THEN /\ call' = [call EXCEPT ![p] = [NoCall EXCEPT !.kind = "read", !.filter = filter,
                                                         !.lockBefore = sentinel,
                                                         !.status = "LockTimeout"]]
          /\ UNCHANGED sentinel
     ELSE /\ call' = [call EXCEPT ![p] = [NoCall EXCEPT !.kind = "read", !.filter = filter,
                                                         !.status = "ok",
                                                         !.result = read(log, filter)]]
          /\ sentinel' = Some(now)
  /\ UNCHANGED <<now, log, nextId, loc, events, listeners, locked>>

\* read(filter): readFile, then parse, filter, sort and slice.  It has one
\* await, the file read, and touches neither the lock manager nor the log.
readCall(p, filter) ==
  /\ CanCall(p)
  /\ calls' = calls + 1
  /\ call' = [call EXCEPT ![p] = [NoCall EXCEPT !.kind = "read", !.filter = filter,
                                                 !.lockBefore = sentinel, !.status = "ok",
                                                 !.result = read(log, filter)]]
  /\ UNCHANGED <<now, log, sentinel, nextId, loc, events, listeners, locked>>

\* The log file's path when no file is there: fileExists answers false and
\* readFile answers ''.
NoFile == <<[kind |-> "ENOENT", obj |-> NoEntry]>>
fileExists(file) == file # NoFile

\* A store on which initialize() has not run yet.
Uninitialized == [Idle EXCEPT !.pc = "uninitialized"]

\* The operations that need initialize() to have run: write, read, delete
\* and clear test filePath (and lockManager) themselves; update, search,
\* stats and export call read() first.
GuardedCalls == {"write", "read", "delete", "clear", "update", "search", "stats", "export"}

\* Faulty variant of callUninitialized: the guard is missing and the call
\* goes on to withLock's acquire().
callUnguarded(p, kind) ==
  /\ loc[p].pc = "uninitialized"
  /\ call' = [call EXCEPT ![p] = [NoCall EXCEPT !.kind = kind, !.status = "running"]]
  /\ loc' = [loc EXCEPT ![p] = acquireStart(Idle)]
  /\ UNCHANGED <<now, log, sentinel, nextId, calls, events, listeners, locked>>

\* An operation called before initialize(): filePath and lockManager are
\* undefined and the guard throws 'Memory store not initialized' before the
\* first await.
callUninitialized(p, kind) ==
  /\ loc[p].pc = "uninitialized"
  /\ call' = [call EXCEPT ![p] = Over([NoCall EXCEPT !.kind = kind], "NotInitialized", NoEntry)]
  /\ UNCHANGED <<now, log, sentinel, nextId, calls, loc, events, listeners, locked>>

\* initialize(): const lockExists = await fileExists(lockPath); without a
\* sentinel initialize() returns, else it goes on to delete it.  c is the
\* record of the call.
initializeCleanUp(p, c) ==
  IF IsDef(sentinel)
  THEN /\ loc' = [loc EXCEPT ![p].pc = "init_delete"]
       /\ call' = [call EXCEPT ![p] = c]
  ELSE /\ loc' = [loc EXCEPT ![p] = Idle]
       /\ call' = [call EXCEPT ![p] = Over(c, "ok", NoEntry)]

\* Faulty variant of initializeDenied: access is checked after the file and
\* the sentinel have been dealt with.
initializeDeniedLate(p) ==
  /\ loc[p].pc = "uninitialized"
  /\ log' = IF fileExists(log) THEN log ELSE <<>>
  /\ sentinel' = Undefined
  /\ call' = [call EXCEPT ![p] = Over([NoCall EXCEPT !.kind = "initialize"], "AccessDenied", NoEntry)]
  /\ UNCHANGED <<now, nextId, calls, loc, events, listeners, locked>>

\* initialize(): hasAccess() answers false and no onSetupRequired is
\* configured: AccessDeniedError is thrown before filePath is assigned.
initializeDenied(p) ==
  /\ loc[p].pc = "uninitialized"
  /\ call' = [call EXCEPT ![p] = Over([NoCall EXCEPT !.kind = "initialize"], "AccessDenied", NoEntry)]
  /\ UNCHANGED <<now, log, sentinel, nextId, calls, loc, events, listeners, locked>>

\* initialize(): access is granted and the directory exists; the log file is
\* looked for, and when it is there the lock manager is built and the
\* sentinel is looked for.
initialize(p) ==
  LET c == [NoCall EXCEPT !.kind = "initialize", !.status = "running", !.lockBefore = sentinel] IN
  /\ loc[p].pc = "uninitialized"
  /\ IF fileExists(log)
     THEN initializeCleanUp(p, c)
     ELSE /\ loc' = [loc EXCEPT ![p].pc = "init_write"]
          /\ call' = [call EXCEPT ![p] = c]
  /\ UNCHANGED <<now, log, sentinel, nextId, calls, events, listeners, locked>>

\* initialize() called again on a store that is initialized and has no call
\* in progress (the applications call it each time a screen loads): the
\* same steps.
initializeAgain(p) ==
  LET c == [NoCall EXCEPT !.kind = "initialize", !.status = "running", !.lockBefore = sentinel] IN
  /\ loc[p].pc = "idle"
  /\ IF fileExists(log)
     THEN initializeCleanUp(p, c)
     ELSE /\ loc' = [loc EXCEPT ![p].pc = "init_write"]
          /\ call' = [call EXCEPT ![p] = c]
  /\ UNCHANGED <<now, log, sentinel, nextId, calls, events, listeners, locked>>

\* initialize(): await this.platformHandler.writeFile(this.filePath, '')
initializeWrite(p) ==
  /\ loc[p].pc = "init_write"
  /\ log' = <<>>
  /\ initializeCleanUp(p, call[p])
  /\ UNCHANGED <<now, sentinel, nextId, calls, events, listeners, locked>>

\* Faulty variant of initializeDelete: the sentinel found is left in place.
initializeKeepsLock(p) ==
  /\ loc[p].pc = "init_delete"
  /\ loc' = [loc EXCEPT ![p] = Idle]
  /\ call' = [call EXCEPT ![p] = Over(call[p], "ok", NoEntry)]
  /\ UNCHANGED <<now, log, sentinel, nextId, calls, events, listeners, locked>>

\* initialize(): await this.platformHandler.deleteFile(lockPath)
initializeDelete(p) ==
  /\ loc[p].pc = "init_delete"
  /\ sentinel' = Undefined
  /\ loc' = [loc EXCEPT ![p] = Idle]
  /\ call' = [call EXCEPT ![p] = Over(call[p], "ok", NoEntry)]
  /\ UNCHANGED <<now, log, nextId, calls, events, listeners, locked>>

\* Time passes.
Tick ==
  /\ now < MaxTime
  /\ now' = now + 1
  /\ UNCHANGED <<log, sentinel, nextId, calls, loc, call, events, listeners, locked>>

(***************************************************************************)
(* Specifications                                                          *)
(***************************************************************************)
\* The ids a caller may pass: the foreign ones (0, and 100 of the entry of
\* another major version), those generated so far, and one that no entry
\* carries.
IdArgs == (0..nextId) \cup {100}

Start(p) ==
  \/ \E input \in WriteInputs : write(p, input)
  \/ \E id \in IdArgs : \E updates \in UpdateChanges : update(p, id, updates)
  \/ \E id \in IdArgs : delete(p, id)
  \/ clear(p)

\* The steps of acquire(), isLocked() and release().
LockStep(p) ==
  \/ isLockedReclaim(p)
  \/ isLockedDelete(p)
  \/ acquireBackoff(p)
  \/ acquireTimeout(p)
  \/ acquireWake(p)
  \/ acquireWrite(p)
  \/ release(p)

\* The steps of write() and update() once the lock is held.
WriteStep(p) ==
  \/ appendRead(p)
  \/ appendWrite(p)
  \/ writeEnd(p)

\* The steps of delete() once the lock is held.
DeleteStep(p) ==
  \/ deleteRead(p)
  \/ deleteWrite(p)
  \/ deleteEnd(p)

\* The steps of clear() once the lock is held.
ClearStep(p) ==
  \/ clearWrite(p)
  \/ clearEnd(p)

Step(p) == LockStep(p) \/ WriteStep(p) \/ DeleteStep(p) \/ ClearStep(p)

Next == Tick \/ \E p \in Apps : Start(p) \/ Step(p)

\* Stores of several applications calling concurrently.
Spec == Init /\ [][Next]_vars

\* Concurrent stores that only call write().
NextWrites ==
  \/ Tick
  \/ \E p \in Apps :
       \/ \E input \in WriteInputs : write(p, input)
       \/ LockStep(p)
       \/ WriteStep(p)

SpecWrites == Init /\ [][NextWrites]_vars

\* Concurrent stores contending for the lock: write() of one input, clear().
NextLock ==
  \/ Tick
  \/ \E p \in Apps :
       \/ write(p, PlainInput)
       \/ clear(p)
       \/ LockStep(p)
       \/ WriteStep(p)
       \/ ClearStep(p)

SpecLock == Init /\ [][NextLock]_vars

\* One call at a time: a store is called only when no call is in progress.
\* The log may start with lines of another application.  No sentinel is ever
\* present when a call starts, so acquire() creates it in its first
\* iteration and the steps that wait, time out or reclaim are not enabled.
AllIdle == \A p \in Apps : loc[p].pc = "idle"

InitSeq == InitWith({<<>>, ForeignLog})

NextSeq ==
  \/ Tick
  \/ \E p \in Apps :
       \/ AllIdle /\ Start(p)
       \/ acquireWrite(p)
       \/ release(p)
       \/ WriteStep(p)
       \/ DeleteStep(p)
       \/ ClearStep(p)

SpecSeq == InitSeq /\ [][NextSeq]_vars

\* The callers of one InMemoryLockManager.  A sleeper is woken by its timer
\* and time goes on (weak fairness); nothing makes a holder release.  A
\* call starts only when its last wake-up is within the clock of the model.
MemWaits(p) == memWake(p)

NextInMemory ==
  \/ Tick
  \/ \E p \in Apps :
       \/ now + lockTimeout + backoff(lockTimeout) <= MaxTime /\ memAcquire(p)
       \/ MemWaits(p)
       \/ memIsLocked(p)
       \/ memRelease(p)

SpecInMemory ==
  /\ Init
  /\ [][NextInMemory]_vars
  /\ WF_vars(Tick)
  /\ \A p \in Apps : WF_vars(MemWaits(p))

\* What a previous run may have left of the sentinel: nothing, an empty
\* file, or its epoch.
LeftOverLocks == {Undefined, Some(0), Some(1)}

\* acquire() on its own: stores that call clear(), the operation with the
\* shortest critical section, on a path where a sentinel may be left over
\* and where creating the sentinel may fail.  The event loop runs every
\* continuation that is ready and time goes on, hence the weak fairness of
\* each store's steps and of Tick.  The clock of the model stops at MaxTime:
\* a call starts only when the last wake-up acquire() can ask for (a sleep
\* begun with elapsed = lockTimeout) is within it.
AcquireSpan == lockTimeout + backoff(lockTimeout)

AcquireStep(p) ==
  \/ LockStep(p)
  \/ acquireWriteFails(p)
  \/ ClearStep(p)

InitAcquire ==
  /\ now = 1
  /\ log = ForeignLog
  /\ sentinel \in LeftOverLocks
  /\ nextId = 1
  /\ calls = 0
  /\ loc = [p \in Apps |-> Idle]
  /\ call = [p \in Apps |-> NoCall]
  /\ events = [p \in Apps |-> <<>>]
  /\ listeners = [p \in Apps |-> <<>>]
  /\ locked = FALSE

NextAcquire ==
  \/ Tick
  \/ \E p \in Apps :
       \/ now + AcquireSpan <= MaxTime /\ clear(p)
       \/ AcquireStep(p)

SpecAcquire ==
  /\ InitAcquire
  /\ [][NextAcquire]_vars
  /\ WF_vars(Tick)
  /\ \A p \in Apps : WF_vars(AcquireStep(p))

\* withLock on its own: one call at a time, so that no other contender
\* touches the sentinel, on a log with lines of another application, where
\* any file operation of the critical section may fail.  The clock stands
\* still: no step of these calls waits.
NextWithLock ==
  \E p \in Apps :
    \/ AllIdle /\ write(p, PlainInput)
    \/ AllIdle /\ \E id \in IdArgs : delete(p, id)
    \/ AllIdle /\ clear(p)
    \/ acquireWrite(p)
    \/ criticalSectionFails(p)
    \/ release(p)
    \/ WriteStep(p)
    \/ DeleteStep(p)
    \/ ClearStep(p)

SpecWithLock == InitWith({ForeignLog}) /\ [][NextWithLock]_vars

\* Stores with listeners: onChange() registers listeners that return and
\* listeners that throw on the store of one application, and the stores
\* call write() and delete() one call at a time.  The clock stands still:
\* no step of these calls waits.
Observed == CHOOSE p \in Apps : TRUE

NextListeners ==
  \E p \in Apps :
    \/ p = Observed /\ \E throws \in BOOLEAN : onChange(p, throws)
    \/ AllIdle /\ write(p, PlainInput)
    \/ AllIdle /\ \E id \in IdArgs : delete(p, id)
    \/ acquireWrite(p)
    \/ release(p)
    \/ WriteStep(p)
    \/ DeleteStep(p)

SpecListeners == InitWith({<<>>}) /\ [][NextListeners]_vars

\* The same stores, whose listeners may also unsubscribe: from outside, or
\* from inside the listener when it is called.
NextUnsubscribe ==
  \/ NextListeners
  \/ onChangeOnce(Observed)
  \/ AllIdle /\ \E index \in 1..MaxListeners : unsubscribe(Observed, index)

SpecUnsubscribe == InitWith({<<>>}) /\ [][NextUnsubscribe]_vars

\* Stores that start uninitialized, on a path where the log file may be
\* missing and a previous run may have left a sentinel (empty, or holding
\* its epoch).  One call at a time; after initialize() no sentinel is
\* present when a call starts, so the waiting steps of acquire() are not
\* enabled.
NoCallRunning == \A p \in Apps : loc[p].pc \in {"idle", "uninitialized"}

InitInitialize ==
  /\ now = 1
  /\ log \in {NoFile, <<>>, ForeignLog}
  /\ sentinel \in LeftOverLocks
  /\ nextId = 1
  /\ calls = 0
  /\ loc = [p \in Apps |-> Uninitialized]
  /\ call = [p \in Apps |-> NoCall]
  /\ events = [p \in Apps |-> <<>>]
  /\ listeners = [p \in Apps |-> <<>>]
  /\ locked = FALSE

NextInitialize ==
  \/ Tick
  \/ \E p \in Apps :
       \/ NoCallRunning /\ \E kind \in GuardedCalls : callUninitialized(p, kind)
       \/ NoCallRunning /\ initializeDenied(p)
       \/ NoCallRunning /\ initialize(p)
       \/ initializeWrite(p)
       \/ initializeDelete(p)
       \/ NoCallRunning /\ write(p, PlainInput)
       \/ acquireWrite(p)
       \/ release(p)
       \/ WriteStep(p)

SpecInitialize == InitInitialize /\ [][NextInitialize]_vars

\* Stores that initialize while others initialize or write: every store
\* instance on the path runs on its own, in its own process or on its own
\* screen of one application.
NextInitializeRace ==
  \/ Tick
  \/ \E p \in Apps :
       \/ initialize(p)
       \/ initializeAgain(p)
       \/ initializeWrite(p)
       \/ initializeDelete(p)
       \/ write(p, PlainInput)
       \/ LockStep(p)
       \/ WriteStep(p)

SpecInitializeRace == InitInitialize /\ [][NextInitializeRace]_vars

\* Logs that read() is applied to: entries out of timestamp order, with and
\* without tags, with timestamp 0, and lines that read() has to skip: text
\* that is no JSON (a partial line), an entry that fails validation and an
\* entry of another major version.
ReadEntry(id, t, tags) == [ForeignEntry("1.0", id, t, "R") EXCEPT !.tags = tags]
PartialLine == [kind |-> "text", obj |-> NoEntry]
InvalidLine == JSONstringify(ForeignEntry("1.0", 103, 1, ""))

\* Lines that parse but hold no entry: an object whose known fields are all
\* valid and that carries one more field, and a JSON number.
UnknownFieldLine == JSONstringify([ForeignEntry("1.0", 104, 2, "U") EXCEPT !.extra = {"priority"}])
NumberLine == [kind |-> "json", obj |-> [NoEntry EXCEPT !.typeof = "number"]]
ReadLogs ==
  { <<>>,
    << JSONstringify(ReadEntry(0, 1, Undefined)),
       JSONstringify(ReadEntry(100, 2, Some(<<"x">>))),
       JSONstringify(ReadEntry(101, 0, Some(<<"y", "person:john">>))) >>,
    << JSONstringify(ReadEntry(101, 0, Some(<<"y">>))),
       InvalidLine,
       JSONstringify(ReadEntry(100, 2, Some(<<"x", "y">>))),
       JSONstringify(ForeignEntry("2.0", 102, 2, "G")),
       JSONstringify(ReadEntry(0, 1, Undefined)),
       PartialLine >>,
    << JSONstringify(ForeignEntry("2.0", 102, 3, "G")),
       JSONstringify(ForeignEntry("1.1", 0, 1, "H")),
       UnknownFieldLine,
       NumberLine,
       JSONstringify(ForeignEntry("1.0", 100, 2, "F")) >> }

\* The filters read() is called with.
FilterTimes == {0, 1, 2}
FilterLimits == {0, 1, 2}
FilterTags == {<<"x">>, <<"y">>, <<"person:john", "x">>}
ReadFilters ==
  {NoFilter}
    \cup {[NoFilter EXCEPT !.limit = Some(n)] : n \in FilterLimits}
    \cup {[NoFilter EXCEPT !.since = Some(s), !.until = Some(u)] : s \in FilterTimes, u \in FilterTimes}
    \cup {[NoFilter EXCEPT !.tags = Some(t)] : t \in FilterTags}
    \cup {[NoFilter EXCEPT !.tags = Some(<<"y">>), !.limit = Some(1)]}

InitRead == InitWith(ReadLogs)

NextRead == \E p \in Apps : \E filter \in ReadFilters : readCall(p, filter)

\* read() of several stores on a log that nobody changes.
SpecRead == InitRead /\ [][NextRead]_vars

\* Concurrent stores contending for the lock while others read.
NextReadLock == NextLock \/ \E p \in Apps : readCall(p, NoFilter)

SpecReadLock == Init /\ [][NextReadLock]_vars

(***************************************************************************)
(* Claims                                                                  *)
(***************************************************************************)
\* A caller is between a successful acquire() and its matching release().
HoldsLock(p) ==
  loc[p].pc \in {"append_read", "append_write", "delete_read", "delete_write",
                 "clear_write", "release"}

\* C1: mutual exclusion: at most one caller at a time is between a
\* successful acquire() and its matching release().
C1_MutualExclusion ==
  \A p, q \in Apps : HoldsLock(p) /\ HoldsLock(q) => p = q

\* The write events delivered so far, one per write() that succeeded.
Successes == UNION {{<<p, i>> : i \in 1..Len(events[p])} : p \in Apps}

\* C2: once N write() calls have been made and all N have succeeded, the log
\* holds exactly N lines, the serialized entry of each call once.
C2_NWritesNLines ==
  (AllIdle /\ Cardinality(Successes) = calls) =>
     /\ Len(log) = calls
     /\ \A s \in Successes :
          Cardinality({i \in 1..Len(log) : log[i] = JSONstringify(events[s[1]][s[2]].entry)}) = 1

Range(s) == {s[i] : i \in 1..Len(s)}

\* The ids that the lines of a file carry.
LineIds(content) == {JSONparse(line).id : line \in {l \in Range(content) : Parses(l)}}

\* The step in which p's call of the given kind returns successfully.
Returns(p, kind) ==
  /\ call[p].kind = kind
  /\ call[p].status = "running"
  /\ call'[p].status = "ok"

\* C4: when write(input) returns, read() returns an entry that equals the
\* returned one, carries the input's content, type, tags, meta and emb, a
\* generated id, the supplied ts (else a time up to now) and the store's
\* app identity as source.
C4_WriteThenRead ==
  [][\A p \in Apps :
       Returns(p, "write") =>
         LET e == call'[p].ret
             input == call[p].input
         IN /\ e \in Range(read(log', NoFilter))
            /\ e.content = input.content
            /\ e.type = input.type
            /\ e.tags = input.tags
            /\ e.meta = input.meta
            /\ e.emb = input.emb
            /\ e.id >= 1 /\ e.id \notin LineIds(call[p].before)
            /\ IF IsDef(input.ts) THEN e.ts = Val(input.ts) ELSE e.ts <= now'
            /\ e.src = p]_vars

\* C5: the entry that update(id, changes) appends and returns has the id
\* passed in, and a timestamp not earlier than that of any revision the log
\* held before.
C5_UpdateKeepsId ==
  [][\A p \in Apps :
       Returns(p, "update") =>
         /\ call'[p].ret.id = call[p].id
         /\ log'[Len(log')] = JSONstringify(call'[p].ret)
         /\ \A e \in Range(read(call[p].before, NoFilter)) :
              e.id = call[p].id => call'[p].ret.ts >= e.ts]_vars

\* C6: a successful update() leaves the log as it was when it was called
\* plus one line, the returned entry's, and read() still returns every entry
\* it returned before.
C6_UpdateAppendsOne ==
  [][\A p \in Apps :
       Returns(p, "update") =>
         /\ log' = Append(call[p].before, JSONstringify(call'[p].ret))
         /\ Range(read(call[p].before, NoFilter)) \subseteq Range(read(log', NoFilter))]_vars

\* C6 witness: an update() has returned and the log holds the revision it
\* updated as well as the one it appended.
C6_Witness ==
  \E p \in Apps :
    /\ call[p].kind = "update" /\ call[p].status = "ok"
    /\ \E i, j \in 1..Len(log) :
         /\ i < j
         /\ log[j] = JSONstringify(call[p].ret)
         /\ Parses(log[i]) /\ JSONparse(log[i]).id = call[p].id

\* C7: while delete(id) runs for an id that no line of the log carries, the
\* log stays as it was, no event is emitted, and the call can only end with
\* the not-found error.
C7_DeleteAbsent ==
  [][\A p \in Apps :
       ( /\ call[p].kind = "delete"
         /\ call[p].status = "running"
         /\ call[p].id \notin LineIds(call[p].before) ) =>
         /\ log' = call[p].before
         /\ events' = events
         /\ call'[p].status \in {"running", "NotFound"}]_vars

\* C7 witness: delete() of an absent id has failed with not-found on a log
\* that holds lines.
C7_Witness ==
  \E p \in Apps :
    /\ call[p].kind = "delete" /\ call[p].status = "NotFound"
    /\ call[p].id \notin LineIds(log)
    /\ log # <<>>
    /\ AllIdle

\* The delete events with this id that p's listeners received.
DeleteEvents(p, id) ==
  {i \in 1..Len(events[p]) : events[p][i].type = "delete" /\ events[p][i].id = id}

\* C8: after a successful delete(id) no line of the log carries the id, and
\* the store's listeners have received exactly one delete event with it.
C8_DeleteRemovesAll ==
  \A p \in Apps :
    (call[p].kind = "delete" /\ call[p].status = "ok") =>
      /\ call[p].id \notin LineIds(log)
      /\ Cardinality(DeleteEvents(p, call[p].id)) = 1

\* C8 witness: delete() of the id that two foreign revisions carried has
\* succeeded.
C8_Witness ==
  \E p \in Apps :
    /\ call[p].kind = "delete" /\ call[p].status = "ok"
    /\ call[p].id = 0

\* C9: a line leaves the log only in a step of a clear() or of a delete() of
\* the id it carries; every other line stays as it is.
C9_LinesStay ==
  [][\A line \in Range(log) :
       line \in Range(log') \/
       \E p \in Apps :
         /\ call[p].status = "running"
         /\ \/ call[p].kind = "clear"
            \/ call[p].kind = "delete" /\ Parses(line) /\ JSONparse(line).id = call[p].id]_vars

\* C10: a write(input) whose built entry fails validation throws
\* ValidationError at once: the log, the sentinel and the delivered events
\* are unchanged and no acquire() has started.
C10_InvalidWriteNoIO ==
  [][\A p \in Apps :
       ( /\ calls' = calls + 1
         /\ call'[p] # call[p]
         /\ call'[p].kind = "write"
         /\ validateEntry(buildEntry(p, call'[p].input)) # "ok" ) =>
         /\ call'[p].status = "ValidationError"
         /\ loc'[p] = Idle
         /\ UNCHANGED <<log, sentinel, events>>]_vars

\* C10 witness: a write() has thrown ValidationError.
C10_Witness ==
  \E p \in Apps :
    /\ call[p].kind = "write" /\ call[p].status = "ValidationError"
    /\ call[p].input = EmptyContentInput
    /\ loc[p] = Idle

\* C11: each time the acquire() of a write() finds a sentinel that is neither
\* invalid nor stale, the call appends nothing and leaves the sentinel, the
\* log and the events alone: it sleeps while the elapsed time is within
\* lockTimeout and fails with LockTimeoutError once it exceeds lockTimeout.
C11_LockTimeout ==
  [][\A p \in Apps :
       ( /\ call[p].kind = "write"
         /\ loc[p].pc = "isLocked_read"
         /\ ~(InvalidLock \/ StaleLock)
         /\ loc'[p] # loc[p] ) =>
         /\ UNCHANGED <<log, sentinel, events>>
         /\ JSONstringify(loc[p].entry) \notin Range(log')
         /\ IF now - loc[p].startTime > lockTimeout
            THEN call'[p].status = "LockTimeout" /\ loc'[p] = Idle
            ELSE call'[p] = call[p] /\ loc'[p].pc = "acquire_sleep"]_vars

\* C11 witness: a write() has failed with LockTimeoutError while another
\* store holds the lock, whose sentinel is still there.
C11_Witness ==
  \E p, q \in Apps :
    /\ p # q
    /\ call[p].kind = "write" /\ call[p].status = "LockTimeout"
    /\ events[p] = <<>>
    /\ HoldsLock(q)
    /\ IsDef(sentinel) /\ ~StaleLock

\* The lines of a file that hold a valid entry of a compatible major version.
GoodLines(content) ==
  {i \in 1..Len(content) :
     /\ Parses(content[i])
     /\ validateEntry(JSONparse(content[i])) = "ok"
     /\ MajorOf(JSONparse(content[i]).v) = MajorOf(PROTOCOL_VERSION)}

\* The lines among them whose entry satisfies Wanted.
Matching(content, Wanted(_)) == {i \in GoodLines(content) : Wanted(JSONparse(content[i]))}

\* The array is made of the entries of exactly these lines, each once.
ReturnsLines(result, content, lines) ==
  /\ Len(result) = Cardinality(lines)
  /\ Range(result) = {JSONparse(content[i]) : i \in lines}

\* C12: read() never fails, whatever the lines hold; it returns no entry of
\* a line that cannot be parsed, fails validation or has another major
\* version, and (no limit given) the entry of every other line that passes
\* the filter.
C12_CorruptionIsolation ==
  \A p \in Apps :
    call[p].kind = "read" =>
      /\ call[p].status = "ok"
      /\ Range(call[p].result) \subseteq {JSONparse(log[i]) : i \in GoodLines(log)}
      /\ ~IsDef(call[p].filter.limit) =>
           LET Passes(e) == PassesFilter(e, call[p].filter)
           IN ReturnsLines(call[p].result, log, Matching(log, Passes))

\* C12 witness: read() without filter of a log with an unparsable last line,
\* an invalid entry and an entry of another major version has returned the
\* three other entries.
C12_Witness ==
  \E p \in Apps :
    /\ call[p].kind = "read" /\ call[p].filter = NoFilter
    /\ Len(log) = 6 /\ ~Parses(log[Len(log)])
    /\ Len(call[p].result) = 3

\* C13: read() with a limit L >= 0 returns at most L entries, the first L of
\* what the same read() without the limit returns (newest first).
C13_LimitNewest ==
  \A p \in Apps :
    (call[p].kind = "read" /\ IsDef(call[p].filter.limit)) =>
      LET L == Val(call[p].filter.limit)
          all == read(log, [call[p].filter EXCEPT !.limit = Undefined])
      IN /\ Len(call[p].result) <= L
         /\ call[p].result = SubSeq(all, 1, IF L < Len(all) THEN L ELSE Len(all))

\* C14: read({since: S, until: U}) returns exactly the valid entries with
\* S <= ts <= U, for all S, U >= 0.
C14_SinceUntilInclusive ==
  \A p \in Apps :
    ( /\ call[p].kind = "read"
      /\ IsDef(call[p].filter.since) /\ IsDef(call[p].filter.until) ) =>
      LET InRange(e) == Val(call[p].filter.since) <= e.ts /\ e.ts <= Val(call[p].filter.until)
      IN ReturnsLines(call[p].result, log, Matching(log, InRange))

\* C16: the entries read() returns are in descending order of timestamp.
C16_NewestFirst ==
  \A p \in Apps :
    call[p].kind = "read" =>
      \A i \in 1..(Len(call[p].result) - 1) :
        call[p].result[i].ts >= call[p].result[i + 1].ts

\* C16 witness: read() has returned three entries newest first from a log
\* whose first line is older than its second.
C16_Witness ==
  \E p \in Apps :
    /\ call[p].kind = "read"
    /\ Len(call[p].result) = 3
    /\ call[p].result[1].ts > call[p].result[3].ts
    /\ JSONparse(log[1]).ts < JSONparse(log[2]).ts

\* C17: read({tags: T}) with T not empty returns exactly the valid entries
\* that carry at least one tag of T, so none that has no tags.
C17_AnyTag ==
  \A p \in Apps :
    ( /\ call[p].kind = "read"
      /\ IsDef(call[p].filter.tags) /\ Len(Val(call[p].filter.tags)) > 0
      /\ ~IsDef(call[p].filter.limit) ) =>
      LET T == Range(Val(call[p].filter.tags))
          Tagged(e) == IsDef(e.tags) /\ Range(Val(e.tags)) \cap T # {}
      IN /\ ReturnsLines(call[p].result, log, Matching(log, Tagged))
         /\ \A i \in 1..Len(call[p].result) : IsDef(call[p].result[i].tags)

\* C17 witness: read() for two tags has returned two entries, each with one
\* of the tags only, from a log that also holds a valid entry without tags.
C17_Witness ==
  \E p \in Apps :
    /\ call[p].kind = "read"
    /\ IsDef(call[p].filter.tags) /\ Len(Val(call[p].filter.tags)) = 2
    /\ Len(call[p].result) = 2
    /\ \E i \in GoodLines(log) : ~IsDef(JSONparse(log[i]).tags)

\* C15: the entry a successful write(input) appends and returns has
\* ts = input.ts when the caller supplied ts (any ts >= 0), and the time of
\* the call when the caller supplied none.
C15_SuppliedTs ==
  [][\A p \in Apps :
       Returns(p, "write") =>
         LET ts == IF IsDef(call[p].input.ts) THEN Val(call[p].input.ts)
                   ELSE loc[p].startTime
         IN /\ call'[p].ret.ts = ts
            /\ JSONparse(log'[Len(log')]).ts = ts]_vars

\* C18: read() takes no step of the lock manager and changes nothing: in the
\* step in which it runs, the log and the sentinel stay as they are, the
\* store does not enter acquire(), and the call returns what the log holds,
\* whether or not a sentinel is present.
C18_ReadNoLock ==
  [][\A p \in Apps :
       (calls' = calls + 1 /\ call'[p] # call[p] /\ call'[p].kind = "read") =>
         /\ UNCHANGED <<log, sentinel, loc, events>>
         /\ call'[p].status = "ok"
         /\ call'[p].result = read(log, call'[p].filter)]_vars

\* C18 witness: read() has returned a line while another store held the
\* lock, and that store still holds it with its sentinel untouched.
C18_Witness ==
  \E p, q \in Apps :
    /\ p # q
    /\ call[p].kind = "read" /\ call[p].status = "ok"
    /\ IsDef(call[p].lockBefore)
    /\ Len(call[p].result) = 1
    /\ HoldsLock(q)
    /\ sentinel = call[p].lockBefore

\* The write events with this entry that p's listeners received.
WriteEvents(evs, entry) ==
  {i \in 1..Len(evs) : evs[i].type = "write" /\ evs[i].entry = entry}

\* C19: the order of a successful write(): the call starts without touching
\* the files; the sentinel is created for an entry that passed validation;
\* the log changes only while the caller holds the lock, by one appended
\* line; the listeners are notified after the release, once, with the
\* entry that is returned.
C19_WriteOrder ==
  [][\A p \in Apps :
       /\ (calls' = calls + 1 /\ call'[p] # call[p] /\ call'[p].kind = "write") =>
            UNCHANGED <<log, sentinel, events>>
       /\ (call[p].kind = "write" /\ call[p].status = "running") =>
            /\ (~IsDef(sentinel) /\ IsDef(sentinel')) =>
                 /\ validateEntry(loc[p].entry) = "ok"
                 /\ HoldsLock(p)' /\ ~HoldsLock(p)
                 /\ UNCHANGED <<log, events>>
            /\ log' # log =>
                 /\ HoldsLock(p) /\ HoldsLock(p)'
                 /\ IsDef(sentinel) /\ UNCHANGED <<sentinel, events>>
                 /\ log' = Append(log, JSONstringify(loc[p].entry))
            /\ events' # events =>
                 /\ ~HoldsLock(p) /\ ~IsDef(sentinel)
                 /\ UNCHANGED <<log, sentinel>>
                 /\ events' = [events EXCEPT ![p] = Append(@, [type |-> "write",
                                                                id |-> loc[p].entry.id,
                                                                entry |-> loc[p].entry])]
                 /\ Returns(p, "write")
            /\ Returns(p, "write") =>
                 /\ call'[p].ret = loc[p].entry
                 /\ Cardinality(WriteEvents(events'[p], call'[p].ret)) = 1
                 /\ JSONstringify(call'[p].ret) \in Range(log')]_vars

\* C19 witness: a write() has returned; its line is the last of the log, the
\* sentinel is gone and its listeners hold one write event with the entry.
C19_Witness ==
  \E p \in Apps :
    /\ call[p].kind = "write" /\ call[p].status = "ok"
    /\ log # <<>> /\ log[Len(log)] = JSONstringify(call[p].ret)
    /\ ~IsDef(sentinel)
    /\ Cardinality(WriteEvents(events[p], call[p].ret)) = 1

\* C20: when initialize() returns, the log file exists and there is no
\* sentinel; the write() that follows finds none, so its acquire() creates
\* the sentinel in its first iteration, without sleeping or timing out.
C20_InitializeCleans ==
  [][\A p \in Apps :
       /\ (call'[p].kind = "initialize" /\ call'[p].status = "ok" /\ call'[p] # call[p]) =>
            /\ fileExists(log')
            /\ ~IsDef(sentinel')
            /\ loc'[p].pc = "idle"
       /\ (calls' = calls + 1 /\ call'[p] # call[p] /\ call'[p].kind = "write") =>
            /\ fileExists(log) /\ ~IsDef(sentinel)
            /\ loc'[p].pc = "acquire_write"
       /\ (call[p].kind = "write" /\ loc[p].pc = "acquire_write" /\ loc'[p] # loc[p]) =>
            /\ HoldsLock(p)'
            /\ loc[p].attempt = 0]_vars

\* C20 witness: a store holds the lock for its first write(), taken in the
\* first iteration of acquire(), after an initialize() that found a sentinel
\* left over.
C20_Witness ==
  \E p, q \in Apps :
    /\ p # q
    /\ call[q].kind = "initialize" /\ call[q].status = "ok"
    /\ IsDef(call[q].lockBefore)
    /\ call[p].kind = "write" /\ HoldsLock(p) /\ loc[p].attempt = 0
    /\ calls = 1

\* C23: update(id, changes) for an id that no entry returned by read()
\* carries fails with the not-found error in the step of the call: the store
\* does not enter acquire(), and log, sentinel and events stay as they are.
C23_UpdateAbsent ==
  [][\A p \in Apps :
       ( /\ calls' = calls + 1
         /\ call'[p] # call[p]
         /\ call'[p].kind = "update"
         /\ \A i \in 1..Len(read(log, NoFilter)) : read(log, NoFilter)[i].id # call'[p].id ) =>
         /\ call'[p].status = "NotFound"
         /\ UNCHANGED <<log, sentinel, events, loc, nextId>>]_vars

\* C23 witness: update() of an id that only a line of another major version
\* carries has failed with not-found, the log being as it was.
C23_Witness ==
  \E p \in Apps :
    /\ call[p].kind = "update" /\ call[p].status = "NotFound"
    /\ call[p].id = 100
    /\ log = ForeignLog
    /\ loc[p] = Idle /\ events[p] = <<>> /\ ~IsDef(sentinel)

\* C24: clear() changes the log only between its acquire() and its
\* release(), to the empty file, of which read() returns nothing; it returns
\* after the release; an empty log changes only by the append of a write();
\* and a clear() that fails with LockTimeoutError has left the log alone.
C24_ClearTruncates ==
  [][/\ \A p \in Apps :
          (call[p].kind = "clear" /\ call[p].status = "running") =>
            /\ (loc'[p] # loc[p] /\ log' # log) =>
                 /\ loc[p].pc = "clear_write" /\ loc'[p].pc = "release"
                 /\ log' = <<>> /\ read(log', NoFilter) = <<>>
            /\ (loc[p].pc = "clear_write" /\ loc'[p] # loc[p]) => log' = <<>>
            /\ call'[p].status = "ok" => loc[p].pc = "after_lock" /\ UNCHANGED log
            /\ call'[p].status = "LockTimeout" =>
                 /\ UNCHANGED <<log, sentinel, events>>
                 /\ now - loc[p].startTime > lockTimeout
            /\ call'[p].status \in {"running", "ok", "LockTimeout"}
     /\ (log = <<>> /\ log' # <<>>) =>
          \E q \in Apps : call[q].kind = "write" /\ loc[q].pc = "append_write"]_vars

\* C24 witness: clear() has returned and the log is empty although a
\* write() of the other store had appended its line and returned.
C24_Witness ==
  \E p, q \in Apps :
    /\ p # q
    /\ call[p].kind = "clear" /\ call[p].status = "ok"
    /\ call[q].kind = "write" /\ call[q].status = "ok"
    /\ log = <<>>

C28_MajorCompatible ==
  \A p \in Apps :
    (call[p].kind = "read" /\ call[p].filter = NoFilter) =>
      \A i \in 1..Len(log) :
        (Parses(log[i]) /\ validateEntry(JSONparse(log[i])) = "ok") =>
          ( JSONparse(log[i]) \in Range(call[p].result)
              <=> MajorOf(JSONparse(log[i]).v) = MajorOf(PROTOCOL_VERSION) )

\* C28 witness: read() has returned the entries of versions 1.1 and 1.0 of
\* a log that also holds a valid entry of version 2.0.
C28_Witness ==
  \E p \in Apps :
    /\ call[p].kind = "read" /\ call[p].filter = NoFilter
    /\ {call[p].result[i].v : i \in 1..Len(call[p].result)} = {"1.0", "1.1"}
    /\ \E i \in 1..Len(log) :
         /\ validateEntry(JSONparse(log[i])) = "ok"
         /\ JSONparse(log[i]).v = "2.0"

C30_SourceIsAppId ==
  /\ \A p \in Apps :
       /\ loc[p].entry # NoEntry => loc[p].entry.src = p
       /\ \A i \in 1..Len(events[p]) :
            events[p][i].type = "write" => events[p][i].entry.src = p
       /\ (call[p].kind \in {"write", "update"} /\ call[p].status = "ok") => call[p].ret.src = p
  /\ \A i \in 1..Len(log) :
       (Parses(log[i]) /\ JSONparse(log[i]).id \in 1..(nextId - 1)) =>
         /\ JSONparse(log[i]).src \in Apps
         /\ \/ \E k \in 1..Len(events[JSONparse(log[i]).src]) :
                 /\ events[JSONparse(log[i]).src][k].type = "write"
                 /\ events[JSONparse(log[i]).src][k].id = JSONparse(log[i]).id
            \/ /\ loc[JSONparse(log[i]).src].pc \in {"release", "after_lock"}
               /\ loc[JSONparse(log[i]).src].entry.id = JSONparse(log[i]).id

\* C30 witness: a store has updated the memory another application wrote;
\* the line it appended is in the log behind that application's lines and
\* carries the store's appId.
C30_Witness ==
  \E p \in Apps :
    /\ call[p].kind = "update" /\ call[p].status = "ok" /\ call[p].id = 0
    /\ call[p].ret.src = p
    /\ Len(log) = Len(ForeignLog) + 1
    /\ SubSeq(log, 1, Len(ForeignLog)) = ForeignLog
    /\ log[Len(log)] = JSONstringify(call[p].ret)

\* C21: an operation called on a store on which initialize() has not run
\* fails in the step of the call with the not-initialized error: the log and
\* the sentinel are neither changed nor about to be touched (the store takes
\* no step of a file operation), and no event is delivered.
C21_NotInitialized ==
  [][\A p \in Apps :
       ( /\ loc[p].pc = "uninitialized"
         /\ call'[p] # call[p]
         /\ call'[p].kind \in GuardedCalls ) =>
         /\ call'[p].status = "NotInitialized"
         /\ loc'[p] = Uninitialized
         /\ UNCHANGED <<log, sentinel, events, nextId>>]_vars

\* C21 witness: write() and export() have failed on two stores that were
\* never initialized, with the log file missing and a sentinel left over.
C21_Witness ==
  \E p, q \in Apps :
    /\ p # q
    /\ loc[p] = Uninitialized /\ loc[q] = Uninitialized
    /\ call[p].kind = "write" /\ call[p].status = "NotInitialized"
    /\ call[q].kind = "export" /\ call[q].status = "NotInitialized"
    /\ log = NoFile /\ IsDef(sentinel)

\* The positions of a store inside acquire().
AcquirePcs == {"isLocked_read", "isLocked_delete", "acquire_sleep", "acquire_write"}

\* C25: every acquire() terminates.  It leaves its loop either by returning
\* in the step that created the sentinel, or by throwing LockTimeoutError
\* with the elapsed time above lockTimeout; a create that failed is followed
\* by the timeout check and the next iteration, and the call never ends
\* with another error.
C25_AcquireTerminates ==
  /\ \A p \in Apps : (loc[p].pc \in AcquirePcs) ~> (loc[p].pc \notin AcquirePcs)
  /\ [][\A p \in Apps :
          (loc[p].pc \in AcquirePcs /\ loc'[p].pc \notin AcquirePcs) =>
            \/ /\ loc[p].pc = "acquire_write"
               /\ loc'[p].pc = CriticalPc(call[p].kind)
               /\ sentinel' = Some(now)
               /\ call'[p].status = "running"
            \/ /\ loc'[p].pc = "idle"
               /\ call'[p].status = "LockTimeout"
               /\ now - loc[p].startTime > lockTimeout]_vars

\* C25 witness: a store holds the lock it created in a later iteration of
\* acquire(), after a create that failed.
C25_Witness ==
  \E p \in Apps :
    /\ HoldsLock(p)
    /\ loc[p].retried
    /\ loc[p].attempt >= 1
    /\ sentinel = Some(now)

C22_ListenerIsolation ==
  [][\A p \in Apps :
       events'[p] # events[p] =>
         LET event == events'[p][Len(events'[p])] IN
         /\ Len(listeners'[p]) = Len(listeners[p])
         /\ \A j \in 1..Len(listeners[p]) :
              listeners'[p][j] = [listeners[p][j] EXCEPT !.received = Append(@, event)]
         /\ call'[p].status = "ok"
         /\ call'[p].ret = (IF event.type = "write" THEN event.entry ELSE NoEntry)
         /\ event.type = "write" => JSONstringify(event.entry) \in Range(log)
         /\ event.type = "delete" =>
              \A i \in 1..Len(read(log, NoFilter)) : read(log, NoFilter)[i].id # event.id
         /\ loc'[p] = Idle]_vars

\* C22 witness: a store has a listener that throws between two that return;
\* its write() and then its delete() of the entry written succeeded, and
\* each of the three listeners was called with both events.
C22_Witness ==
  \E p \in Apps :
    /\ Len(listeners[p]) = 3
    /\ ~listeners[p][1].throws /\ listeners[p][2].throws /\ ~listeners[p][3].throws
    /\ call[p].kind = "delete" /\ call[p].status = "ok"
    /\ Len(events[p]) = 2
    /\ events[p][1].type = "write" /\ events[p][2].type = "delete"
    /\ \A j \in 1..3 : listeners[p][j].received = events[p]

\* C31: an initialize() that is refused access fails with AccessDeniedError
\* in the step of the call: the log file is not created, the sentinel is
\* not removed and the store stays uninitialized, so that the operation
\* called next on it fails with the not-initialized error.
C31_AccessDenied ==
  [][\A p \in Apps :
       /\ (call'[p] # call[p] /\ call'[p].status = "AccessDenied") =>
            /\ call'[p].kind = "initialize"
            /\ loc'[p] = Uninitialized
            /\ UNCHANGED <<log, sentinel, events, nextId>>
       /\ (call[p].status = "AccessDenied" /\ call'[p] # call[p]
             /\ call'[p].kind \in GuardedCalls) =>
            /\ call'[p].status = "NotInitialized"
            /\ UNCHANGED <<log, sentinel>>]_vars

\* C31 witness: initialize() has been refused on a path where the log file
\* is missing and a sentinel is left over; both are as they were.
C31_Witness ==
  \E p \in Apps :
    /\ call[p].kind = "initialize" /\ call[p].status = "AccessDenied"
    /\ loc[p] = Uninitialized
    /\ log = NoFile /\ IsDef(sentinel)

\* C32: the log never holds two lines with the same content; lines that
\* carry the same id differ in their content.
C32_NoDuplicateLines ==
  \A i, j \in 1..Len(log) :
    i # j =>
      /\ log[i] # log[j]
      /\ (Parses(log[i]) /\ Parses(log[j]) /\ JSONparse(log[i]).id = JSONparse(log[j]).id) =>
           [JSONparse(log[i]) EXCEPT !.id = 0] # [JSONparse(log[j]) EXCEPT !.id = 0]

\* C32 witness: a store has written the same input twice within one tick,
\* starting from the empty log; the two lines differ in their id only.
C32_Witness ==
  \E p \in Apps :
    /\ call[p].kind = "write" /\ call[p].status = "ok"
    /\ calls = 2
    /\ Len(log) = 2
    /\ JSONparse(log[1]).id # JSONparse(log[2]).id
    /\ [JSONparse(log[1]) EXCEPT !.id = 0] = [JSONparse(log[2]) EXCEPT !.id = 0]

\* C33: file format: every line of the log is the JSON text of one object
\* that is a valid entry (the empty log has no line).
C33_FileFormat ==
  fileExists(log) =>
    \A i \in 1..Len(log) :
      /\ Parses(log[i])
      /\ validateEntry(JSONparse(log[i])) = "ok"

\* C34: with no other contender, a call that acquired the lock has released
\* it before it returns or throws: the sentinel exists only while a store
\* is in its critical section or about to release, also when a file
\* operation of the critical section failed or delete() threw not-found,
\* and it is gone when withLock is left and when the call is over.
C34_AlwaysReleases ==
  /\ IsDef(sentinel) => \E p \in Apps : HoldsLock(p)
  /\ \A p \in Apps : loc[p].pc = "after_lock" => ~IsDef(sentinel)
  /\ AllIdle => ~IsDef(sentinel)

\* C34 witness: a write() whose append failed and a delete() that threw
\* not-found are over, and no sentinel exists.
C34_Witness ==
  \E p, q \in Apps :
    /\ call[p].kind = "write" /\ call[p].status = "IOError"
    /\ call[q].kind = "delete" /\ call[q].status = "NotFound"
    /\ AllIdle
    /\ ~IsDef(sentinel)
    /\ log = ForeignLog

\* The steps of initialize() that a store takes.
InitializeStep(p) ==
  /\ loc'[p] # loc[p]
  /\ \/ loc[p].pc \in {"init_write", "init_delete"}
     \/ loc'[p].pc \in {"init_write", "init_delete"}
     \/ call'[p].kind = "initialize" /\ call'[p] # call[p]

\* C35: no step of a store's initialize() removes or changes the sentinel
\* while another store is between its acquire() and its release().
C35_InitializeKeepsHolder ==
  [][\A p, q \in Apps :
       (p # q /\ InitializeStep(p) /\ HoldsLock(q)) => UNCHANGED sentinel]_vars

\* C38: no step of initialize() removes or alters a line of the log: it
\* leaves the log as it is, or creates the missing file empty.
C38_InitializeKeepsLog ==
  [][\A p \in Apps :
       InitializeStep(p) => (log' = log \/ (log = NoFile /\ log' = <<>>))]_vars

\* C36: a release() leaves in place the sentinel that another caller created
\* after reclaiming a stale one: when q holds the lock through a sentinel
\* it wrote after its reclaim, the release() of p does not change it.
C36_ReleaseOwnOnly ==
  [][\A p, q \in Apps :
       ( /\ p # q
         /\ loc[p].pc = "release" /\ loc'[p].pc = "after_lock"
         /\ HoldsLock(q)
         /\ loc[q].reclaimed # <<>>
         /\ IsDef(sentinel)
         /\ Val(sentinel) > loc[q].reclaimed[1] ) =>
         UNCHANGED sentinel]_vars

C40_InMemoryLock ==
  /\ [](\A p, q \in Apps : (loc[p].pc = "mem_held" /\ loc[q].pc = "mem_held") => p = q)
  /\ [](locked <=> \E p \in Apps : loc[p].pc = "mem_held")
  /\ [][\A p \in Apps :
          /\ (loc[p].pc # "mem_held" /\ loc'[p].pc = "mem_held") => ~locked
          /\ (call[p].status = "running" /\ call'[p].status = "LockTimeout") =>
               /\ locked /\ locked'
               /\ now - loc[p].startTime > lockTimeout
          /\ (locked /\ ~locked') =>
               \E q \in Apps : loc[q].pc = "mem_held" /\ loc'[q].pc = "idle"]_vars
  /\ \A p \in Apps : (loc[p].pc = "mem_sleep") ~> (loc[p].pc # "mem_sleep")

\* C40 witness: a caller has held the lock for more than twice lockTimeout
\* and the acquire() of the other caller has timed out.
C40_Witness ==
  \E p, q \in Apps :
    /\ p # q
    /\ loc[p].pc = "mem_held" /\ locked
    /\ now - loc[p].startTime > StaleFactor * lockTimeout
    /\ call[q].kind = "acquire" /\ call[q].status = "LockTimeout"

\* C39: when a store emits an event, every listener registered at that
\* moment is called with it exactly once, also when listeners unsubscribe
\* themselves during the notification: afterwards the listeners that did
\* not unsubscribe are registered, in their order, each with the event added
\* to what it had received.  An unsubscribe outside a notification removes
\* that listener only and delivers nothing.
C39_EveryListenerOnce ==
  [][\A p \in Apps :
       /\ events'[p] # events[p] =>
            LET event == events'[p][Len(events'[p])]
                Stays(l) == ~l.once
                called == [j \in 1..Len(listeners[p]) |->
                            [listeners[p][j] EXCEPT !.received = Append(@, event)]]
            IN listeners'[p] = SelectSeq(called, Stays)
       /\ Len(listeners'[p]) < Len(listeners[p]) /\ events'[p] = events[p] =>
            \E index \in 1..Len(listeners[p]) : listeners'[p] = RemoveAt(listeners[p], index)]_vars

====
